---------------------------- MODULE Spec2Model ----------------------------
(***************************************************************************)
(* A model of discern's type-erased handler registry and dispatch path:    *)
(* CommandHandlerRegistry / QueryHandlerRegistry (src/src/registry.rs),    *)
(* the executor wrappers (registry.rs, mod executor) and CommandBus /      *)
(* QueryBus (src/src/command.rs, src/src/query.rs).                        *)
(*                                                                         *)
(* The command side and the query side are the same mechanism; `kind`      *)
(* says which of the two one behaviour instantiates.                       *)
(***************************************************************************)
EXTENDS Integers, Sequences, FiniteSets, TLC

\* ------------------------------------------------------------- bounds
MaxRegs == 3      \* register calls made while wiring
MaxTasks == 2     \* dispatch futures created on the buses
MaxBuses == 2     \* bus handles (the original and its clones)

Tasks == 1..MaxTasks
HandlerIds == 1..MaxRegs
BusIds == 1..MaxBuses
Kinds == {"command", "query"}

\* --------------------------------------------------- operation types
\* Three operation types. A and B have the same field structure and the
\* same Metadata/Output and Error types; C differs in both.
Types == {"A", "B", "C"}

layout(t) == IF t = "C" THEN "unit" ELSE "u64"

\* std::any::type_name::<T>()
type_name(t) == CASE t = "A" -> "crate::A" [] t = "B" -> "crate::B" [] OTHER -> "crate::C"

\* A type identity computed from the field structure alone (what the code
\* does not do).
structural_type_id(t) == IF layout(t) = "u64" THEN 1 ELSE 3

\* TypeId::of::<T>(): one identity per type, whatever its structure.
type_id(t) == CASE t = "A" -> 1 [] t = "B" -> 2 [] OTHER -> 3

\* TypeId::of::<Result<T::Metadata, T::Error>>(): A and B declare the same
\* result and error types, so their results share one identity.
result_type_id(t) == IF t = "C" THEN 13 ELSE 11

\* ------------------------------------------------------ Box<dyn Any>
\* Box::new(x) as Box<dyn Any + Send>: the value with its runtime type.
any_box(tid, x) == [tid |-> tid, val |-> x]

\* A downcast that does not look at the runtime type.
unchecked_downcast(b, tid) == [ok |-> TRUE, val |-> b.val]

\* Box<dyn Any>::downcast::<T>(): Ok(value) when the runtime type is T,
\* Err(the box) otherwise.
downcast(b, tid) == [ok |-> b.tid = tid, val |-> b.val]

\* ---------------------------------------------------------- HashMap
\* The map is a set of (key, entry) pairs, so that "one entry per key" is
\* a property of insert and not of the representation.
NoEntry == [handler |-> 0, serves |-> "none"]

\* An insert that drops every other pair.
insert_clear(m, k, e) == {[key |-> k, entry |-> e]}

\* An insert that keeps the pair already stored under the key.
insert_keep(m, k, e) == m \cup {[key |-> k, entry |-> e]}

\* HashMap::insert: the new pair replaces the one stored under the key.
insert(m, k, e) == {p \in m : p.key # k} \cup {[key |-> k, entry |-> e]}

\* A lookup that fabricates a default entry for an absent key.
get_or_default(m, k) ==
    IF \E p \in m : p.key = k
    THEN [some |-> TRUE, entry |-> (CHOOSE p \in m : p.key = k).entry]
    ELSE [some |-> TRUE, entry |-> [handler |-> 1, serves |-> "A"]]

\* HashMap::get(&k).cloned(): Some(entry) or None.
get(m, k) ==
    IF \E p \in m : p.key = k
    THEN [some |-> TRUE, entry |-> (CHOOSE p \in m : p.key = k).entry]
    ELSE [some |-> FALSE, entry |-> NoEntry]

\* --------------------------------------------------------- registry
\* CommandHandlerRegistry::new / QueryHandlerRegistry::new
registry_new == {}

\* An entry built for one fixed type, whatever type it is registered for.
wrap_fixed(h, t) == [handler |-> h, serves |-> "A"]

\* Arc::new(Box::new(handler) as Box<dyn CommandHandler<C>>): the entry
\* owns handler instance h and downcasts to C = t.
wrap(h, t) == [handler |-> h, serves |-> t]

\* A register that never replaces an entry already present.
register_first_wins(m, t, h) ==
    IF \E p \in m : p.key = type_id(t) THEN m ELSE insert(m, type_id(t), wrap(h, t))

\* register::<C>(handler)
register(m, t, h) == insert(m, type_id(t), wrap(h, t))

\* get_handler::<C>()
get_handler(m, t) == get(m, type_id(t))

\* ------------------------------------------------------ diagnostics
\* A missing-handler panic whose message does not say which type.
no_handler_panic_anonymous(k, t) == [msg |-> "No handler registered", names |-> {}]

\* panic!("No handler registered for command: {:?}", type_name::<C>())
no_handler_panic(k, t) ==
    [msg |-> IF k = "command" THEN "No handler registered for command"
                              ELSE "No handler registered for query",
     names |-> {type_name(t)}]

\* Result::unwrap() on the Err of a failed downcast: the message is
\* "called `Result::unwrap()` on an `Err` value: Any { .. }".
unwrap_panic == [msg |-> "called Result::unwrap() on an Err value: Any { .. }",
                 names |-> {}]

\* A panic raised by the handler body itself.
handler_panic == [msg |-> "handler panicked", names |-> {}]

NoPanic == [msg |-> "", names |-> {}]

\* ------------------------------------------------------------ state
VARIABLES
    kind,          \* "command" or "query": which bus/registry pair this is
    phase,         \* "wiring": the registry is owned and mutable;
                   \* "shared": it was moved into the bus's Arc
    handlers,      \* the registry's HashMap<TypeId, Arc<dyn ...Wrapper>>
    regLog,        \* history: the register calls made, in order
    buses,         \* the bus handles that hold the Arc
    pc,            \* per dispatch: where its future is
    call,          \* per dispatch: the bus and the operation value given
    frame,         \* per dispatch: the entry it cloned and the handler's argument
    out,           \* per dispatch: what the concrete handler returned
    ret,           \* per dispatch: what dispatch returned to the caller
    diag,          \* per dispatch: the payload of the panic that ended it
    handlerCalls,  \* per handler instance: invocations begun (handler state)
    impls,         \* per handler instance: the operation types its type implements
                   \* CommandHandler / QueryHandler for
    built,         \* how the registry was built when a macro built it
    cpu            \* the dispatch future the executor thread is polling, or 0

vars == <<kind, phase, handlers, regLog, buses, pc, call, frame, out, ret, diag,
          handlerCalls, impls, built, cpu>>

\* What the dispatch path itself never touches.
aux == <<impls, built, cpu>>

NoOp == [type |-> "none", fields |-> 0]
NoCall == [bus |-> 0, op |-> NoOp]
NoFrame == [entry |-> NoEntry, arg |-> NoOp, overlapped |-> FALSE]
NoResult == [kind |-> "none", by |-> 0, from |-> 0]
NoMacro == [by |-> "none", form |-> "none", items |-> <<>>, compiled |-> TRUE]

Init ==
    /\ kind \in Kinds
    /\ phase = "wiring"
    /\ handlers = registry_new
    /\ regLog = <<>>
    /\ buses = {}
    /\ pc = [i \in Tasks |-> "idle"]
    /\ call = [i \in Tasks |-> NoCall]
    /\ frame = [i \in Tasks |-> NoFrame]
    /\ out = [i \in Tasks |-> NoResult]
    /\ ret = [i \in Tasks |-> NoResult]
    /\ diag = [i \in Tasks |-> NoPanic]
    /\ handlerCalls = [h \in HandlerIds |-> 0]
    /\ impls = [h \in HandlerIds |-> {}]
    /\ built = NoMacro
    /\ cpu = 0

\* ------------------------------------------------- the erased calls
\* Box::new(command) in the Arc wrapper's handle: the operation, erased,
\* carries the identity of its own type.
erase_operation(op) == any_box(type_id(op.type), op)

\* command.downcast::<C>() in execute: C is the type the entry was built for.
execute_downcast(entry, b) == downcast(b, type_id(entry.serves))

\* Box::new(result) as Box<dyn Any + Send> in execute.
execute_box_result(entry, r) == any_box(result_type_id(entry.serves), r)

\* A recovery of the result that turns a domain error into a failed unwrap.
handle_downcast_err_fatal(t, b) ==
    [ok |-> b.tid = result_type_id(t) /\ b.val.kind # "Err", val |-> b.val]

\* A recovery of the result that rebuilds it and loses the payload.
handle_downcast_rebuilt(t, b) ==
    [ok |-> b.tid = result_type_id(t), val |-> [b.val EXCEPT !.from = 0]]

\* result.downcast() in the Arc wrapper's handle: the target is
\* Result<C::Metadata, C::Error> of the dispatched type C = t.
handle_downcast(t, b) == downcast(b, result_type_id(t))

\* What a handler body returns: Ok or Err (its choice), carrying which
\* handler instance produced it and the field value it was computed from.
handler_result(h, arg, k) == [kind |-> k, by |-> h, from |-> arg.fields]

\* An argument slot shared by the invocations of one entry: every
\* invocation reads the argument stored last.
arg_of_shared(f, i) ==
    LET js == {j \in Tasks : f[j].entry = f[i].entry}
    IN f[CHOOSE j \in js : \A k \in js : j >= k].arg

\* The argument of invocation i: execute's local `command`, owned by that
\* invocation's future.
arg_of(f, i) == f[i].arg

\* A missing handler reported as an ordinary error value.
on_missing_as_value(k, t) ==
    [pc |-> "returned", diag |-> NoPanic, ret |-> [kind |-> "Err", by |-> 0, from |-> 0]]

\* dispatch's None arm: panic!, nothing is returned.
on_missing(k, t) == [pc |-> "panicked", diag |-> no_handler_panic(k, t), ret |-> NoResult]

\* A lookup that also looks at the value dispatched.
lookup_by_value(m, op) ==
    IF op.fields = 1 THEN get_handler(m, op.type) ELSE get(m, (type_id(op.type) % 3) + 1)

\* self.registry.get_handler::<C>() in dispatch: C is the static type of the
\* operation; no field of the value takes part.
lookup(m, op) == get_handler(m, op.type)

\* An entry that admits one invocation at a time.
can_enter_exclusive(entry) ==
    ~\E j \in Tasks : pc[j] = "handling" /\ frame[j].entry = entry

\* An entry behind a lock that a panic poisons.
can_enter_unless_poisoned(entry) == ~\E j \in Tasks : pc[j] = "panicked"

\* What stands between a dispatch and the handler it found: nothing.
\* get_handler clones the Arc and handle takes &self; there is no lock and
\* no queue.
can_enter(entry) == TRUE

\* A bus that calls the handler again after an error.
on_result_retry_err(k) == IF k = "Err" THEN "retry" ELSE "return"

\* What dispatch does with the handler's result: handler.handle(..).await is
\* the value of the function, Ok or Err alike.
on_result(k) == "return"

\* A dispatch that catches the handler's panic and reports an error value.
on_handler_panic_caught ==
    [pc |-> "returned", diag |-> NoPanic, ret |-> [kind |-> "Err", by |-> 0, from |-> 0]]

\* A panic in the handler body unwinds through execute, handle and
\* dispatch: none of them catches it.
on_handler_panic == [pc |-> "panicked", diag |-> handler_panic, ret |-> NoResult]

\* A cancellation that also aborts the other invocations of the same entry.
after_cancel_abort_peers(pcs, i) ==
    [j \in Tasks |->
        IF j = i \/ (pcs[j] = "handling" /\ frame[j].entry = frame[i].entry
                      /\ frame[i].entry # NoEntry)
        THEN "cancelled" ELSE pcs[j]]

\* Dropping a dispatch future drops that future's own state and nothing
\* else: the core has no Drop impl and no cancellation hook.
after_cancel(pcs, i) == [pcs EXCEPT ![i] = "cancelled"]

\* A clone that starts from a registry of its own.
registry_of_own(b) == IF b = 1 THEN handlers ELSE registry_new

\* self.registry of bus handle b: the bus is #[derive(Clone)] over an
\* Arc<Registry>, so every handle points at the one registry.
registry_of(b) == handlers

\* A registry that stays writable after the bus was built from it.
can_register_shared(ph) == TRUE

\* register takes &mut self; Bus::new takes the registry by value and moves
\* it into an Arc, after which no &mut to it can be had.
can_register(ph) == ph = "wiring"

\* ---------------------------------------------------------- actions
\* registry.register::<t>(handler): the handler is a fresh instance, moved
\* into the registry.
Register(t) ==
    /\ can_register(phase)
    /\ Len(regLog) < MaxRegs
    /\ LET h == Len(regLog) + 1 IN
        /\ handlers' = register(handlers, t, h)
        /\ regLog' = Append(regLog, [type |-> t, handler |-> h])
        /\ impls' = [impls EXCEPT ![h] = {t}]
    /\ UNCHANGED <<kind, phase, buses, pc, call, frame, out, ret, diag, handlerCalls>>
    /\ UNCHANGED <<built, cpu>>

\* CommandBus::new(registry) / QueryBus::new(registry)
BusNew ==
    /\ phase = "wiring"
    /\ phase' = "shared"
    /\ buses' = {1}
    /\ UNCHANGED <<kind, handlers, regLog, pc, call, frame, out, ret, diag, handlerCalls>>
    /\ UNCHANGED aux

\* bus.clone(): one more handle on the same Arc.
BusClone ==
    /\ phase = "shared"
    /\ Cardinality(buses) < MaxBuses
    /\ buses' = buses \cup {Cardinality(buses) + 1}
    /\ UNCHANGED <<kind, phase, handlers, regLog, pc, call, frame, out, ret, diag, handlerCalls>>
    /\ UNCHANGED aux

\* bus.dispatch(operation): an async fn, so the call only builds the future.
\* Futures are numbered in the order they are created, and the i-th carries
\* an operation value whose field is i: no two dispatches carry the same
\* value, so a result delivered to the wrong dispatch shows.
DispatchCall(i, b, t) ==
    /\ phase = "shared"
    /\ b \in buses
    /\ pc[i] = "idle"
    /\ \A j \in Tasks : j < i => pc[j] # "idle"
    /\ pc' = [pc EXCEPT ![i] = "created"]
    /\ call' = [call EXCEPT ![i] = [bus |-> b, op |-> [type |-> t, fields |-> i]]]
    /\ UNCHANGED <<kind, phase, handlers, regLog, buses, frame, out, ret, diag, handlerCalls>>
    /\ UNCHANGED aux

\* <Arc<dyn ...Wrapper> as CommandHandler<C>>::handle(entry, op) up to the
\* first suspension: erase the operation, execute downcasts it (unwrap) and
\* calls the concrete handler, whose body then runs. frame.entry is the Arc
\* the call holds; frame.arg is set once the concrete handler is entered.
Invoke(i, entry, op) ==
    LET dc == execute_downcast(entry, erase_operation(op)) IN
    IF dc.ok
    THEN /\ pc' = [pc EXCEPT ![i] = "handling"]
         /\ frame' = [frame EXCEPT ![i] =
                [entry |-> entry, arg |-> dc.val,
                 overlapped |-> \E j \in Tasks : pc[j] = "handling"
                                                 /\ frame[j].entry = entry]]
         /\ handlerCalls' = [handlerCalls EXCEPT ![entry.handler] = @ + 1]
         /\ UNCHANGED diag
    ELSE /\ pc' = [pc EXCEPT ![i] = "panicked"]
         /\ frame' = [frame EXCEPT ![i] = [@ EXCEPT !.entry = entry]]
         /\ diag' = [diag EXCEPT ![i] = unwrap_panic]
         /\ UNCHANGED handlerCalls

\* The first poll of the dispatch future: get_handler, then the None arm
\* (panic) or the Some arm (handler.handle(operation)).
DispatchPoll(i) ==
    /\ pc[i] = "created"
    /\ LET t == call[i].op.type
           got == lookup(registry_of(call[i].bus), call[i].op)
       IN IF got.some
          THEN /\ can_enter(got.entry)
               /\ Invoke(i, got.entry, call[i].op)
               /\ UNCHANGED ret
          ELSE /\ pc' = [pc EXCEPT ![i] = on_missing(kind, t).pc]
               /\ diag' = [diag EXCEPT ![i] = on_missing(kind, t).diag]
               /\ ret' = [ret EXCEPT ![i] = on_missing(kind, t).ret]
               /\ UNCHANGED <<frame, handlerCalls>>
    /\ UNCHANGED <<kind, phase, handlers, regLog, buses, call, out>>
    /\ UNCHANGED aux

\* The handler body finishes with Ok or Err: execute boxes the result, the
\* Arc wrapper's handle downcasts it (unwrap) and dispatch returns it.
HandlerReturn(i, k) ==
    /\ pc[i] = "handling"
    /\ LET e == frame[i].entry
           r == handler_result(e.handler, arg_of(frame, i), k)
           dc == handle_downcast(call[i].op.type, execute_box_result(e, r))
       IN IF on_result(k) = "retry"
          THEN /\ handlerCalls' = [handlerCalls EXCEPT ![e.handler] = @ + 1]
               /\ UNCHANGED <<pc, out, ret, diag>>
          ELSE /\ out' = [out EXCEPT ![i] = r]
               /\ UNCHANGED handlerCalls
               /\ IF dc.ok
                  THEN /\ pc' = [pc EXCEPT ![i] = "returned"]
                       /\ ret' = [ret EXCEPT ![i] = dc.val]
                       /\ UNCHANGED diag
                  ELSE /\ pc' = [pc EXCEPT ![i] = "panicked"]
                       /\ diag' = [diag EXCEPT ![i] = unwrap_panic]
                       /\ UNCHANGED ret
    /\ UNCHANGED <<kind, phase, handlers, regLog, buses, call, frame>>
    /\ UNCHANGED aux

\* The handler body panics: nothing on the way out catches the unwind.
\* out records that the handler ended by panicking.
HandlerPanic(i) ==
    /\ pc[i] = "handling"
    /\ out' = [out EXCEPT ![i] =
            [kind |-> "Panic", by |-> frame[i].entry.handler, from |-> frame[i].arg.fields]]
    /\ pc' = [pc EXCEPT ![i] = on_handler_panic.pc]
    /\ diag' = [diag EXCEPT ![i] = on_handler_panic.diag]
    /\ ret' = [ret EXCEPT ![i] = on_handler_panic.ret]
    /\ UNCHANGED <<kind, phase, handlers, regLog, buses, call, frame, handlerCalls>>
    /\ UNCHANGED aux

\* The caller drops the dispatch future before it completed.
Cancel(i) ==
    /\ pc[i] \in {"created", "handling"}
    /\ pc' = after_cancel(pc, i)
    /\ UNCHANGED <<kind, phase, handlers, regLog, buses, call, frame, out, ret, diag, handlerCalls>>
    /\ UNCHANGED aux

Next ==
    \/ \E t \in Types : Register(t)
    \/ BusNew
    \/ BusClone
    \/ \E i \in Tasks, b \in BusIds, t \in Types : DispatchCall(i, b, t)
    \/ \E i \in Tasks : DispatchPoll(i)
    \/ \E i \in Tasks, k \in {"Ok", "Err"} : HandlerReturn(i, k)
    \/ \E i \in Tasks : HandlerPanic(i)
    \/ \E i \in Tasks : Cancel(i)

Spec == Init /\ [][Next]_vars

\* The erased interface driven directly: code inside the crate (handlers is
\* pub(crate), and Arc<dyn ...Wrapper> implements CommandHandler<C> for
\* every C) calls handle::<t> on the entry stored in pair p, with no lookup
\* by t. call.bus = 0 marks a call that went through no bus.
HandleDirect(i, p, t) ==
    /\ p \in handlers
    /\ pc[i] = "idle"
    /\ \A j \in Tasks : j < i => pc[j] # "idle"
    /\ call' = [call EXCEPT ![i] = [bus |-> 0, op |-> [type |-> t, fields |-> i]]]
    /\ Invoke(i, p.entry, [type |-> t, fields |-> i])
    /\ UNCHANGED <<kind, phase, handlers, regLog, buses, out, ret>>
    /\ UNCHANGED aux

NextExec ==
    \/ Next
    \/ \E i \in Tasks, p \in handlers, t \in Types : HandleDirect(i, p, t)

\* The dispatch path together with direct calls of the erased interface.
ExecSpec == Init /\ [][NextExec]_vars

\* ------------------------------------------------------- vocabulary
Entered(i) == frame[i].arg # NoOp

ViaBus(i) == call[i].bus # 0

EverRegistered(t) == \E k \in 1..Len(regLog) : regLog[k].type = t

HasEntry(t) == \E p \in handlers : p.key = type_id(t)

\* The handler instance given by the last register call for t.
LastRegistered(t) ==
    LET ks == {k \in 1..Len(regLog) : regLog[k].type = t}
    IN regLog[CHOOSE k \in ks : \A l \in ks : l <= k].handler

\* ------------------------------------------------------------ claims
\* C1 (round trip): whenever the handler of a dispatch returned Ok(r), the
\* handler had been called with the dispatched value unchanged and the
\* dispatch returned exactly Ok(r).
C1_RoundTrip ==
    \A i \in Tasks :
        (ViaBus(i) /\ out[i].kind = "Ok") =>
            /\ frame[i].arg = call[i].op
            /\ pc[i] = "returned"
            /\ ret[i] = out[i]

C1_Witness ==
    \E i \in Tasks :
        /\ kind = "command"
        /\ ViaBus(i) /\ pc[i] = "returned"
        /\ out[i] = [kind |-> "Ok", by |-> frame[i].entry.handler, from |-> i]
        /\ ret[i] = out[i]

\* C2 (error passthrough): whenever the handler of a dispatch returned
\* Err(e), the dispatch returned exactly Err(e): it did not panic, and the
\* value was neither replaced nor turned into Ok.
C2_ErrorPassthrough ==
    \A i \in Tasks :
        (ViaBus(i) /\ out[i].kind = "Err") =>
            /\ pc[i] = "returned"
            /\ ret[i] = out[i]
            /\ diag[i] = NoPanic

C2_Witness ==
    \E i \in Tasks :
        /\ kind = "query"
        /\ ViaBus(i) /\ pc[i] = "returned"
        /\ out[i] = [kind |-> "Err", by |-> frame[i].entry.handler, from |-> i]
        /\ ret[i] = out[i]

\* C3 (missing-handler fatality): a dispatch of a type with no entry in the
\* registry, once polled, has panicked with the missing-handler panic; it
\* entered no handler and returned no value.
C3_MissingHandlerFatal ==
    \A i \in Tasks :
        (ViaBus(i) /\ ~HasEntry(call[i].op.type) /\ pc[i] \notin {"created", "cancelled"}) =>
            /\ pc[i] = "panicked"
            /\ diag[i] = no_handler_panic(kind, call[i].op.type)
            /\ ret[i] = NoResult
            /\ ~Entered(i)

C3_Witness ==
    \E i \in Tasks :
        /\ ViaBus(i) /\ ~HasEntry(call[i].op.type)
        /\ handlers # {}
        /\ pc[i] = "panicked" /\ ret[i] = NoResult

\* C4 (identity isolation): for distinct types a and b of identical field
\* structure, with a registered and b never registered, a polled dispatch of
\* a b value has taken the missing-handler path and entered no handler.
C4_IdentityIsolation ==
    \A i \in Tasks : \A a \in Types :
        LET b == call[i].op.type IN
        (/\ ViaBus(i) /\ a # b /\ layout(a) = layout(b)
         /\ EverRegistered(a) /\ ~EverRegistered(b)
         /\ pc[i] \notin {"created", "cancelled"}) =>
            /\ pc[i] = "panicked"
            /\ diag[i] = no_handler_panic(kind, b)
            /\ ~Entered(i)
            /\ out[i] = NoResult

C4_Witness ==
    \E i \in Tasks :
        /\ ViaBus(i) /\ call[i].op.type = "B"
        /\ EverRegistered("A") /\ ~EverRegistered("B")
        /\ pc[i] = "panicked" /\ ~Entered(i)
        /\ \A h \in HandlerIds : handlerCalls[h] = 0

\* C5 (last registration wins): every dispatch that entered a handler
\* entered the instance given by the last register call for its type.
C5_LastRegistrationWins ==
    \A i \in Tasks :
        (ViaBus(i) /\ Entered(i)) =>
            /\ frame[i].entry.handler = LastRegistered(call[i].op.type)
            /\ (pc[i] = "returned" => ret[i].by = LastRegistered(call[i].op.type))

C5_Witness ==
    \E i \in Tasks :
        /\ Len(regLog) = 3
        /\ regLog[1].type = call[i].op.type
        /\ regLog[2].type # call[i].op.type
        /\ regLog[3].type = call[i].op.type
        /\ pc[i] = "returned" /\ ret[i].by = 3

\* C6 (concurrent dispatch independence): under every interleaving, a
\* dispatch that returned got the result its own handler invocation computed
\* from its own operation value, and an invocation in progress holds its own
\* dispatch's value.
C6_ConcurrentIndependence ==
    \A i \in Tasks :
        /\ (ViaBus(i) /\ Entered(i)) => frame[i].arg = call[i].op
        /\ (ViaBus(i) /\ pc[i] = "returned") =>
              /\ ret[i] = handler_result(frame[i].entry.handler, call[i].op, ret[i].kind)
              /\ ret[i] = out[i]

\* Two dispatches of one type whose handler invocations overlapped, both
\* returned, each with the result derived from its own value.
C6_Witness ==
    \E i, j \in Tasks :
        /\ i # j /\ ViaBus(i) /\ ViaBus(j)
        /\ call[i].op.type = call[j].op.type
        /\ frame[j].overlapped
        /\ pc[i] = "returned" /\ pc[j] = "returned"
        /\ ret[i].from = i /\ ret[j].from = j

\* C7: after any sequence of register calls, get_handler::<t>() is Some
\* exactly when t was registered at least once; the entry it returns is one
\* a register call for t built, and a new registry gives None for every type.
C7_GetHandlerIffRegistered ==
    \A t \in Types :
        LET g == get_handler(handlers, t) IN
        /\ g.some <=> EverRegistered(t)
        /\ g.some => /\ g.entry.serves = t
                     /\ [type |-> t, handler |-> g.entry.handler] \in
                            {regLog[k] : k \in 1..Len(regLog)}
        /\ ~g.some => g.entry = NoEntry

C7_Witness ==
    /\ Len(regLog) = 2
    /\ get_handler(handlers, "A").some
    /\ get_handler(handlers, "C").some
    /\ ~get_handler(handlers, "B").some
    /\ \E i, j \in Tasks :
        /\ call[i].op.type = "A" /\ pc[i] = "handling"
        /\ call[j].op.type = "B" /\ pc[j] = "panicked"

\* C8: every reachable registry holds at most one entry per operation type
\* (exactly one for a type that was registered), and register has no failing
\* outcome: while the registry is being wired, register is possible for
\* every type, present or not.
C8_OneEntryPerType ==
    /\ \A p, q \in handlers : p.key = q.key => p = q
    /\ \A t \in Types :
          Cardinality({p \in handlers : p.key = type_id(t)}) =
              (IF EverRegistered(t) THEN 1 ELSE 0)
    /\ (phase = "wiring" /\ Len(regLog) < MaxRegs) =>
          \A t \in Types : ENABLED Register(t)

C8_Witness ==
    /\ Len(regLog) >= 2
    /\ regLog[1].type = regLog[2].type
    /\ Cardinality({p \in handlers : p.key = type_id(regLog[1].type)}) = 1

\* C9: once the bus is built, no step (a dispatch that returns Ok or Err or
\* aborts, a cancellation, a bus clone) changes the registry: the registered
\* types and the entry bound to each stay what they were.
C9_RegistryFrozen ==
    [][phase = "shared" => (handlers' = handlers /\ regLog' = regLog /\ phase' = "shared")]_vars

C9_Witness ==
    /\ phase = "shared"
    /\ handlers # {}
    /\ Cardinality(buses) = 2
    /\ \E i, j \in Tasks :
        /\ pc[i] = "returned" /\ call[i].bus = 2
        /\ pc[j] = "panicked" /\ call[j].bus = 1

\* A call whose erased operation is not of the type its entry was built for.
Mismatched(i) ==
    /\ pc[i] # "idle"
    /\ frame[i].entry # NoEntry
    /\ frame[i].entry.serves # call[i].op.type

\* C10 as stated: both mechanism failures (no handler registered, downcast
\* mismatch) are fatal aborts whose diagnostic names the offending
\* operation type.
C10_BothNameTheType ==
    \A i \in Tasks :
        /\ (ViaBus(i) /\ ~HasEntry(call[i].op.type) /\ pc[i] \notin {"created", "cancelled"}) =>
              /\ pc[i] = "panicked" /\ ret[i] = NoResult
              /\ diag[i].names = {type_name(call[i].op.type)}
        /\ Mismatched(i) =>
              /\ pc[i] = "panicked" /\ ret[i] = NoResult
              /\ diag[i].names = {type_name(call[i].op.type)}

\* C10 amended: both mechanism failures are fatal aborts that return no
\* value; the missing-handler diagnostic names the operation type, while
\* the downcast mismatch carries the generic message of a failed unwrap,
\* which names no type.
C10_MechanismFailuresAbort ==
    \A i \in Tasks :
        /\ (ViaBus(i) /\ ~HasEntry(call[i].op.type) /\ pc[i] \notin {"created", "cancelled"}) =>
              /\ pc[i] = "panicked" /\ ret[i] = NoResult
              /\ diag[i].names = {type_name(call[i].op.type)}
        /\ Mismatched(i) =>
              /\ pc[i] = "panicked" /\ ret[i] = NoResult /\ ~Entered(i)
              /\ diag[i] = unwrap_panic
              /\ diag[i].names = {}

C10_Witness ==
    \E i, j \in Tasks :
        /\ ViaBus(i) /\ ~HasEntry(call[i].op.type) /\ pc[i] = "panicked"
        /\ diag[i].names = {type_name(call[i].op.type)}
        /\ Mismatched(j) /\ pc[j] = "panicked" /\ diag[j] = unwrap_panic

\* C11: each dispatch of a registered type invokes the registered handler
\* exactly once, whether it returns Ok or Err: every polled dispatch of a
\* registered type entered its handler, and each handler instance was
\* invoked once per dispatch that entered it, never again.
C11_ExactlyOnce ==
    /\ \A h \in HandlerIds :
          handlerCalls[h] =
              Cardinality({i \in Tasks : Entered(i) /\ frame[i].entry.handler = h})
    /\ \A i \in Tasks :
          (ViaBus(i) /\ HasEntry(call[i].op.type)
                     /\ pc[i] \in {"handling", "returned", "panicked"}) => Entered(i)

C11_Witness ==
    \E i, j \in Tasks :
        /\ i # j /\ ViaBus(i) /\ ViaBus(j)
        /\ frame[i].entry = frame[j].entry
        /\ pc[i] = "returned" /\ ret[i].kind = "Err"
        /\ pc[j] = "returned" /\ ret[j].kind = "Ok"
        /\ handlerCalls[frame[i].entry.handler] = 2

\* C13: the bus does not serialize dispatches. A dispatch of a registered
\* type that has not been polled yet can always take its step into the
\* handler, whatever the other dispatches are doing: in particular while
\* another dispatch of the same type is suspended inside the same handler.
C13_NoSerialization ==
    \A i \in Tasks :
        (pc[i] = "created" /\ HasEntry(call[i].op.type)) => ENABLED DispatchPoll(i)

\* Two invocations of the one shared handler are in flight: the second
\* entered while the first was suspended in the body.
C13_Witness ==
    \E i, j \in Tasks :
        /\ i # j
        /\ call[i].op.type = call[j].op.type
        /\ pc[i] = "handling" /\ pc[j] = "handling"
        /\ frame[i].entry = frame[j].entry
        /\ frame[j].overlapped

\* C14: key/entry consistency. Every key of the registry is the identity of
\* the type its entry was built for, so the entry a dispatch of T finds
\* serves T, and neither downcast (of the argument in execute, of the
\* result in handle) fails during a dispatch.
C14_KeyEntryConsistency ==
    /\ \A p \in handlers : p.key = type_id(p.entry.serves)
    /\ \A i \in Tasks :
          ViaBus(i) =>
              /\ frame[i].entry # NoEntry => frame[i].entry.serves = call[i].op.type
              /\ diag[i] # unwrap_panic

\* Both downcasts were passed by a dispatch of B while A, which has B's
\* structure and B's result type, is registered too.
C14_Witness ==
    \E i \in Tasks :
        /\ ViaBus(i) /\ call[i].op.type = "B"
        /\ HasEntry("A") /\ HasEntry("B")
        /\ pc[i] = "returned" /\ ret[i].kind = "Ok"
        /\ frame[i].entry.serves = "B"

\* C15: executing an entry built for T with an erased value whose actual
\* type is U # T ends in a panic before the concrete handler is invoked:
\* the handler's invocation count does not move, no erased result is
\* produced and nothing (neither Ok nor Err) is returned.
C15_MismatchAbortsBeforeHandler ==
    \A i \in Tasks :
        Mismatched(i) =>
            /\ pc[i] = "panicked"
            /\ ~Entered(i)
            /\ out[i] = NoResult /\ ret[i] = NoResult
            /\ handlerCalls[frame[i].entry.handler] =
                  Cardinality({j \in Tasks : Entered(j) /\ frame[j].entry = frame[i].entry})

\* An entry built for A was executed with a B, which has A's structure.
C15_Witness ==
    \E i \in Tasks :
        /\ ~ViaBus(i)
        /\ frame[i].entry.serves = "A" /\ call[i].op.type = "B"
        /\ pc[i] = "panicked" /\ diag[i] = unwrap_panic
        /\ handlerCalls[frame[i].entry.handler] = 0

\* A dispatch whose future was polled at least once.
Polled(i) == pc[i] \in {"handling", "returned", "panicked"} \/ Entered(i)

\* C17: routing depends on the type only. Any two dispatched values of the
\* same type T, whatever their fields, are routed to the same entry, the
\* one registered last for T (or both to none).
C17_RoutingByTypeOnly ==
    \A i, j \in Tasks :
        (Polled(i) /\ Polled(j) /\ call[i].op.type = call[j].op.type) =>
            /\ frame[i].entry = frame[j].entry
            /\ Entered(i) <=> HasEntry(call[i].op.type)
            /\ Entered(i) => frame[i].entry.handler = LastRegistered(call[i].op.type)

\* Two values of one type with different fields reached one handler
\* instance, while another type is registered as well.
C17_Witness ==
    \E i, j \in Tasks :
        /\ call[i].op.type = call[j].op.type
        /\ call[i].op.fields # call[j].op.fields
        /\ Entered(i) /\ Entered(j)
        /\ frame[i].arg # frame[j].arg
        /\ frame[i].entry.handler = frame[j].entry.handler
        /\ Cardinality(handlers) >= 2

\* C19: a panic raised inside the handler body leaves dispatch as that
\* panic: the dispatch has panicked with the handler's payload and returned
\* nothing; it is not caught and not converted into an error value.
C19_HandlerPanicPropagates ==
    \A i \in Tasks :
        out[i].kind = "Panic" =>
            /\ pc[i] = "panicked"
            /\ diag[i] = handler_panic
            /\ ret[i] = NoResult

C19_Witness ==
    \E i \in Tasks :
        /\ ViaBus(i) /\ Entered(i)
        /\ out[i] = [kind |-> "Panic", by |-> frame[i].entry.handler, from |-> i]
        /\ pc[i] = "panicked" /\ diag[i] = handler_panic

\* What a cancelled dispatch leaves behind: no result, no handler outcome,
\* no panic.
CancelledLeavesNothing ==
    \A i \in Tasks :
        pc[i] = "cancelled" =>
            ret[i] = NoResult /\ out[i] = NoResult /\ diag[i] = NoPanic

\* Every dispatch that returned, returned the result computed from its own
\* operation by the handler registered for its own type.
ReturnsOwnResult ==
    \A j \in Tasks :
        pc[j] = "returned" =>
            /\ ret[j].from = call[j].op.fields
            /\ ret[j].by = LastRegistered(call[j].op.type)

\* A step that cancels dispatch i changes the position of i and nothing
\* else: not the registry, not a handler, not another dispatch.
CancelStepIsLocal ==
    \A i \in Tasks :
        (pc[i] # "cancelled" /\ pc'[i] = "cancelled") =>
            /\ handlers' = handlers /\ buses' = buses /\ phase' = phase
            /\ handlerCalls' = handlerCalls
            /\ \A j \in Tasks \ {i} :
                  /\ pc'[j] = pc[j] /\ frame'[j] = frame[j]
                  /\ out'[j] = out[j] /\ ret'[j] = ret[j] /\ diag'[j] = diag[j]

\* C20: cancelling an in-flight dispatch runs no clean-up: the cancelled
\* dispatch yields no result, the registry and every other dispatch are
\* left as they were, and the other dispatches still return their own
\* results.
C20_CancelIsLocal ==
    /\ [](CancelledLeavesNothing /\ ReturnsOwnResult)
    /\ [][CancelStepIsLocal]_vars

\* A dispatch was cancelled inside the handler while a second dispatch of
\* the same entry was in flight; the second returned its own result.
C20_Witness ==
    \E i, j \in Tasks :
        /\ i # j
        /\ pc[i] = "cancelled" /\ Entered(i) /\ ret[i] = NoResult
        /\ frame[j].entry = frame[i].entry /\ frame[j].overlapped
        /\ pc[j] = "returned" /\ ret[j].from = j
        /\ HasEntry(call[i].op.type)

\* ------------------------------------------------ wiring by macro
MaxItems == 2     \* items listed in one macro invocation

\* The handler types of the program: three serve one operation type each,
\* one implements the handler trait for both A and B.
HandlerImpls == {{"A"}, {"B"}, {"C"}, {"A", "B"}}

\* What can be listed, by shape. `handler, ...`: the operation type is
\* inferred, so the handler serves exactly one. `Type => handler, ...`: the
\* type is stated and the handler implements the trait for it.
ItemsOf(shape) ==
    {it \in [type : Types, impls : HandlerImpls] :
        /\ it.type \in it.impls
        /\ shape = "handlers" => it.impls = {it.type}}

ItemLists(shape) == UNION {[1..n -> ItemsOf(shape)] : n \in 0..MaxItems}

macro_name(k, target) == <<k, target>>

\* macro_rules! tries the arms in order: `()` takes the empty input, then
\* `$($handler:expr),*`, then `$($ty:ty => $handler:expr),*`.
arm(shape, items) == IF items = <<>> THEN "empty" ELSE shape

\* The module through which the arm names the registry type.
ctor_path(k, target, a) ==
    IF target = "registry" /\ a = "empty" THEN k ELSE "registry"

\* crate::registry declares the registry types `pub`; command.rs and
\* query.rs import them with a private `use`, so the path through
\* crate::command / crate::query does not resolve outside that module.
path_resolves(module) == module = "registry"

\* A registration that binds the handler to every type it implements.
register_every_impl(m, t, h, S) ==
    {p \in m : \A u \in S : p.key # type_id(u)}
        \cup {[key |-> type_id(u), entry |-> wrap(h, u)] : u \in S}

\* registry.register::<T, _>(handler), T stated: H: CommandHandler<T> is
\* required of the handler, and T alone is bound.
register_explicit(m, t, h, S) == register(m, t, h)

\* $(registry.register($handler);)* / $(registry.register::<$ty>($handler);)*
\* on a new registry: one register call per item, in listed order; the k-th
\* listed handler is instance k.
RECURSIVE expand_registers(_, _, _)
expand_registers(a, items, n) ==
    IF n = 0 THEN registry_new
    ELSE LET m == expand_registers(a, items, n - 1) IN
         IF a = "pairs"
         THEN register_explicit(m, items[n].type, n, items[n].impls)
         ELSE register(m, items[n].type, n)

\* command_registry!(..) / command_bus!(..) / query_registry!(..) /
\* query_bus!(..) in a crate that uses discern. When the expansion does not
\* compile there is no program: phase "rejected" has no successor.
MacroBuild(target, shape, items) ==
    /\ phase = "wiring" /\ regLog = <<>> /\ built = NoMacro
    /\ LET a == arm(shape, items)
           ok == path_resolves(ctor_path(kind, target, a))
       IN /\ built' = [by |-> macro_name(kind, target), form |-> a,
                       items |-> items, compiled |-> ok]
          /\ IF ok
             THEN /\ handlers' = expand_registers(a, items, Len(items))
                  /\ regLog' = [k \in 1..Len(items) |->
                                   [type |-> items[k].type, handler |-> k]]
                  /\ impls' = [h \in HandlerIds |->
                                   IF h <= Len(items) THEN items[h].impls ELSE {}]
                  /\ phase' = IF target = "bus" THEN "shared" ELSE "wiring"
                  /\ buses' = IF target = "bus" THEN {1} ELSE buses
             ELSE /\ phase' = "rejected"
                  /\ UNCHANGED <<handlers, regLog, impls, buses>>
    /\ UNCHANGED <<kind, pc, call, frame, out, ret, diag, handlerCalls, cpu>>

\* registry.register::<t, _>(handler) with a handler whose type implements
\* the handler trait for the types in S.
RegisterExplicit(t, S) ==
    /\ can_register(phase)
    /\ Len(regLog) < MaxRegs
    /\ t \in S
    /\ LET h == Len(regLog) + 1 IN
        /\ handlers' = register_explicit(handlers, t, h, S)
        /\ regLog' = Append(regLog, [type |-> t, handler |-> h])
        /\ impls' = [impls EXCEPT ![h] = S]
    /\ UNCHANGED <<kind, phase, buses, pc, call, frame, out, ret, diag, handlerCalls>>
    /\ UNCHANGED <<built, cpu>>

NextWire ==
    \/ \E target \in {"registry", "bus"}, shape \in {"handlers", "pairs"} :
          \E items \in ItemLists(shape) : MacroBuild(target, shape, items)
    \/ \E t \in Types : Register(t)
    \/ \E t \in Types, S \in HandlerImpls : RegisterExplicit(t, S)
    \/ BusNew
    \/ \E i \in Tasks, t \in Types : DispatchCall(i, 1, t)
    \/ \E i \in Tasks : DispatchPoll(i)
    \/ \E i \in Tasks, k \in {"Ok", "Err"} : HandlerReturn(i, k)

\* The ways of wiring a registry (register calls with the type inferred or
\* stated, and the four macros), followed by dispatches on the one bus
\* built from it that run to completion.
WireSpec == Init /\ [][NextWire]_vars

\* new() followed by one register call per logged registration, in order.
RECURSIVE Replay(_, _)
Replay(log, n) ==
    IF n = 0 THEN registry_new
    ELSE register(Replay(log, n - 1), log[n].type, log[n].handler)

\* C12: bulk registration is pure sugar. Whenever a macro was used, it
\* produced a registry (or bus): the registry is in the state that new()
\* followed by one register call per listed item, in listed order, leaves,
\* a bus macro hands it to a bus, and a dispatch of a type listed twice
\* enters the handler listed later.
C12_MacrosAreSugar ==
    built.by # "none" =>
        /\ built.compiled
        /\ Len(regLog) >= Len(built.items)
        /\ \A k \in 1..Len(built.items) :
              regLog[k] = [type |-> built.items[k].type, handler |-> k]
        /\ handlers = Replay(regLog, Len(regLog))
        /\ built.by[2] = "bus" => phase = "shared" /\ 1 \in buses
        /\ \A i \in Tasks :
              Entered(i) => frame[i].entry.handler = LastRegistered(call[i].op.type)

\* A macro listed the same type twice, and a dispatch of that type entered
\* the handler listed second.
C12_Witness ==
    \E i \in Tasks :
        /\ built.by # "none" /\ built.compiled
        /\ Len(built.items) = 2
        /\ built.items[1].type = built.items[2].type
        /\ call[i].op.type = built.items[1].type
        /\ Entered(i) /\ frame[i].entry.handler = 2
        /\ pc[i] = "returned" /\ ret[i].by = 2

\* C16: explicit registration binds only the stated type. A handler that
\* implements the handler trait for T and U, registered with T stated, is
\* stored under T alone and serves T; while U was never registered itself,
\* U has no entry and a dispatch of U panics with the missing-handler panic
\* without entering any handler.
C16_ExplicitBindsOnlyStated ==
    /\ \A p \in handlers :
          /\ p.entry.serves = regLog[p.entry.handler].type
          /\ p.entry.serves \in impls[p.entry.handler]
    /\ \A h \in 1..Len(regLog) :
          /\ HasEntry(regLog[h].type)
          /\ \A u \in impls[h] \ {regLog[h].type} :
                ~EverRegistered(u) =>
                    /\ ~HasEntry(u)
                    /\ \A i \in Tasks :
                          (Polled(i) /\ call[i].op.type = u) =>
                              /\ pc[i] = "panicked" /\ ~Entered(i)
                              /\ diag[i] = no_handler_panic(kind, u)
                              /\ ret[i] = NoResult

\* One handler implements the trait for A and B and was registered for A:
\* a dispatch of A was served by it, a dispatch of B found no handler.
C16_Witness ==
    \E h \in 1..Len(regLog), i, j \in Tasks :
        /\ impls[h] = {"A", "B"} /\ regLog[h].type = "A"
        /\ ~EverRegistered("B")
        /\ call[i].op.type = "A" /\ pc[i] = "returned" /\ ret[i].by = h
        /\ call[j].op.type = "B" /\ pc[j] = "panicked"
        /\ diag[j] = no_handler_panic(kind, "B")

\* ------------------------------------------------ one poll, step by step
\* The dispatch future polled by one executor thread. cpu is the future the
\* thread is inside (0: none). Between the steps of one poll the thread
\* stays inside the future; it leaves when the future completes, panics, or
\* returns Pending. pc gains the positions inside a poll:
\*   "found"    get_handler returned Some(handler)
\*   "erased"   the Arc wrapper's handle boxed the operation
\*   "handling" execute unboxed it and the concrete handler's body runs
\*   "finished" the body returned its Result

\* A dispatch future that can return Pending after the lookup as well.
may_suspend_after_lookup(loc) == loc \in {"found", "handling"}

\* A dispatch future that can return Pending once more after the handler's
\* body has returned.
may_suspend_after_finish(loc) == loc \in {"handling", "finished"}

\* Where a poll of the dispatch future can return Pending. Every .await in
\* dispatch, in the Arc wrapper's handle and in execute awaits the next
\* inner future at once; the innermost is the concrete handler's body, the
\* only code that can await something not ready.
may_suspend(loc) == loc = "handling"

\* The executor polls future i: for the first time, or again after a wake.
Poll(i) ==
    /\ cpu = 0
    /\ pc[i] = "created" \/ may_suspend(pc[i])
    /\ cpu' = i
    /\ UNCHANGED <<kind, phase, handlers, regLog, buses, pc, call, frame, out, ret,
                   diag, handlerCalls, impls, built>>

\* match self.registry.get_handler::<C>(): None panics, Some goes on.
StepLookup(i) ==
    /\ cpu = i /\ pc[i] = "created"
    /\ LET t == call[i].op.type
           got == lookup(registry_of(call[i].bus), call[i].op)
       IN IF got.some
          THEN /\ pc' = [pc EXCEPT ![i] = "found"]
               /\ frame' = [frame EXCEPT ![i] = [@ EXCEPT !.entry = got.entry]]
               /\ UNCHANGED <<diag, ret, cpu>>
          ELSE /\ pc' = [pc EXCEPT ![i] = on_missing(kind, t).pc]
               /\ diag' = [diag EXCEPT ![i] = on_missing(kind, t).diag]
               /\ ret' = [ret EXCEPT ![i] = on_missing(kind, t).ret]
               /\ cpu' = 0
               /\ UNCHANGED frame
    /\ UNCHANGED <<kind, phase, handlers, regLog, buses, call, out, handlerCalls,
                   impls, built>>

\* handler.handle(command): self.execute(Box::new(command)).
StepErase(i) ==
    /\ cpu = i /\ pc[i] = "found"
    /\ pc' = [pc EXCEPT ![i] = "erased"]
    /\ UNCHANGED <<kind, phase, handlers, regLog, buses, call, frame, out, ret, diag,
                   handlerCalls, impls, built, cpu>>

\* execute: downcast, unwrap, self.handle(command): the body starts.
StepEnter(i) ==
    /\ cpu = i /\ pc[i] = "erased"
    /\ Invoke(i, frame[i].entry, call[i].op)
    /\ cpu' = IF pc'[i] = "panicked" THEN 0 ELSE i
    /\ UNCHANGED <<kind, phase, handlers, regLog, buses, call, out, ret, impls, built>>

\* The poll returns Pending: the thread leaves the future where it stands.
StepYield(i) ==
    /\ cpu = i /\ may_suspend(pc[i])
    /\ cpu' = 0
    /\ UNCHANGED <<kind, phase, handlers, regLog, buses, pc, call, frame, out, ret,
                   diag, handlerCalls, impls, built>>

\* The body returns Ok or Err.
StepFinish(i, k) ==
    /\ cpu = i /\ pc[i] = "handling"
    /\ out' = [out EXCEPT ![i] = handler_result(frame[i].entry.handler, arg_of(frame, i), k)]
    /\ pc' = [pc EXCEPT ![i] = "finished"]
    /\ UNCHANGED <<kind, phase, handlers, regLog, buses, call, frame, ret, diag,
                   handlerCalls, impls, built, cpu>>

\* Box::new(result) in execute, *result.downcast().unwrap() in handle, and
\* dispatch returns: the future is Ready.
StepRecover(i) ==
    /\ cpu = i /\ pc[i] = "finished"
    /\ LET dc == handle_downcast(call[i].op.type,
                                 execute_box_result(frame[i].entry, out[i]))
       IN IF dc.ok
          THEN /\ pc' = [pc EXCEPT ![i] = "returned"]
               /\ ret' = [ret EXCEPT ![i] = dc.val]
               /\ UNCHANGED diag
          ELSE /\ pc' = [pc EXCEPT ![i] = "panicked"]
               /\ diag' = [diag EXCEPT ![i] = unwrap_panic]
               /\ UNCHANGED ret
    /\ cpu' = 0
    /\ UNCHANGED <<kind, phase, handlers, regLog, buses, call, frame, out,
                   handlerCalls, impls, built>>

\* bus.dispatch(operation) called by code the thread runs outside any
\* dispatch future.
StepCall(i, t) ==
    /\ cpu = 0
    /\ DispatchCall(i, 1, t)

NextStep ==
    \/ \E t \in Types : Register(t)
    \/ BusNew
    \/ \E i \in Tasks, t \in Types : StepCall(i, t)
    \/ \E i \in Tasks : Poll(i)
    \/ \E i \in Tasks : StepLookup(i)
    \/ \E i \in Tasks : StepErase(i)
    \/ \E i \in Tasks : StepEnter(i)
    \/ \E i \in Tasks : StepYield(i)
    \/ \E i \in Tasks, k \in {"Ok", "Err"} : StepFinish(i, k)
    \/ \E i \in Tasks : StepRecover(i)

\* Dispatches on one bus, polled step by step by one executor thread.
StepSpec == Init /\ [][NextStep]_vars

\* Between the lookup and the return of dispatch.
InFlight(i) == pc[i] \in {"found", "erased", "handling", "finished"}

\* A step in which the executor thread leaves future i unfinished.
YieldStep(i) == cpu = i /\ cpu' # i /\ pc'[i] \notin {"returned", "panicked"}

\* C18: within one dispatch the only suspension point is the handler body.
\* A dispatch that is between its lookup and its return and is not being
\* run by the thread stands inside the handler body, so another dispatch
\* runs in between only there; and every step that leaves a dispatch
\* unfinished leaves it inside the handler body.
C18_SuspendsOnlyInHandler ==
    /\ [](\A i \in Tasks : (InFlight(i) /\ cpu # i) => pc[i] = "handling")
    /\ [][\A i \in Tasks : YieldStep(i) => pc[i] = "handling" /\ pc'[i] = "handling"]_vars

\* Dispatch 1 is suspended inside its handler's body while the thread runs
\* dispatch 2 of the same type between its lookup and its handler.
C18_Witness ==
    \E i, j \in Tasks :
        /\ i # j /\ call[i].op.type = call[j].op.type
        /\ pc[i] = "handling" /\ cpu = j
        /\ pc[j] \in {"found", "erased"}

\* C21: a cloned bus shares the original's registry. Every bus handle finds,
\* for every type, what the original finds (so a type is registered for the
\* clone exactly when it is for the original); dispatches of one type
\* through different handles enter the same handler instance, and that
\* instance's state counts the invocations made through all of them.
C21_CloneSharesRegistry ==
    /\ \A b \in buses, t \in Types :
          get_handler(registry_of(b), t) = get_handler(registry_of(1), t)
    /\ \A i, j \in Tasks :
          (Polled(i) /\ Polled(j) /\ call[i].bus # call[j].bus
                     /\ call[i].op.type = call[j].op.type) =>
              /\ frame[i].entry = frame[j].entry
              /\ Entered(i) <=> Entered(j)
              /\ Entered(i) =>
                    handlerCalls[frame[i].entry.handler] >=
                        Cardinality({k \in {i, j} : Entered(k)})

\* One dispatch went through the original, one through the clone; both
\* entered the same handler instance, which saw two invocations.
C21_Witness ==
    \E i, j \in Tasks :
        /\ call[i].bus = 1 /\ call[j].bus = 2
        /\ call[i].op.type = call[j].op.type
        /\ Entered(i) /\ Entered(j)
        /\ frame[i].entry.handler = frame[j].entry.handler
        /\ handlerCalls[frame[i].entry.handler] = 2

\* C22: register for type T changes only the entry for T. In every step
\* that makes one register call, the call binds T to the handler given, and
\* for every other type U what get_handler finds (a handler, or none) is
\* the same before and after.
C22_RegisterFrame ==
    [][Len(regLog') = Len(regLog) + 1 =>
          LET t == regLog'[Len(regLog')].type IN
              /\ get_handler(handlers', t).some
              /\ get_handler(handlers', t).entry.handler = regLog'[Len(regLog')].handler
              /\ \A u \in Types \ {t} :
                    get_handler(handlers', u) = get_handler(handlers, u)]_vars

\* Three register calls for two types: the second type was registered
\* twice, and the first type still has the handler of the first call.
C22_Witness ==
    /\ Len(regLog) = 3
    /\ regLog[1].type # regLog[2].type /\ regLog[3].type = regLog[2].type
    /\ get_handler(handlers, regLog[1].type).entry.handler = 1
    /\ get_handler(handlers, regLog[2].type).entry.handler = 3
    /\ \A u \in Types \ {regLog[1].type, regLog[2].type} : ~get_handler(handlers, u).some

\* What holds of dispatch j of a registered type at every moment: it can be
\* polled, polling takes it into the handler registered last for its type,
\* the handler can return, and what dispatch returns is that handler's
\* result for j's own operation.
ReachesItsHandler(j) ==
    /\ pc[j] = "created" => ENABLED DispatchPoll(j)
    /\ Polled(j) =>
          Entered(j) /\ frame[j].entry.handler = LastRegistered(call[j].op.type)
    /\ pc[j] = "handling" => ENABLED HandlerReturn(j, "Ok")
    /\ pc[j] = "returned" =>
          /\ ret[j] = out[j]
          /\ ret[j].by = LastRegistered(call[j].op.type)
          /\ ret[j].from = call[j].op.fields

\* A step in which dispatch i aborts leaves the registry, the bus handles
\* and every other dispatch as they were.
AbortStepIsLocal ==
    \A i \in Tasks :
        (pc[i] # "panicked" /\ pc'[i] = "panicked") =>
            /\ handlers' = handlers /\ buses' = buses /\ phase' = phase
            /\ \A j \in Tasks \ {i} : pc'[j] = pc[j] /\ frame'[j] = frame[j]

\* C23: a failed dispatch does not poison the bus. Once some dispatch has
\* aborted (no handler registered, or its handler panicked), every other
\* dispatch of a registered type still reaches its handler and returns that
\* handler's result; the abort itself changes nothing shared.
C23_FailureDoesNotPoison ==
    /\ [](\A j \in Tasks :
            ((\E i \in Tasks \ {j} : pc[i] = "panicked")
                 /\ pc[j] # "idle" /\ HasEntry(call[j].op.type)) => ReachesItsHandler(j))
    /\ [][AbortStepIsLocal]_vars

\* The handler of dispatch i panicked; after that, dispatch j of the same
\* type entered the same handler (neither entered while the other was
\* inside it, and j is still inside).
C23_Witness ==
    \E i, j \in Tasks :
        /\ i # j
        /\ pc[i] = "panicked" /\ out[i].kind = "Panic" /\ ~frame[i].overlapped
        /\ pc[j] = "handling" /\ ~frame[j].overlapped
        /\ frame[j].entry = frame[i].entry
        /\ call[j].bus = call[i].bus

\* The step-by-step dispatch with the thread making progress: once inside a
\* poll, the thread runs the synchronous code of dispatch, handle and
\* execute to its end. Nothing is assumed of the executor's choice of
\* future (Poll), nor of the handler's body (StepYield, StepFinish).
LiveStepSpec ==
    /\ StepSpec
    /\ \A i \in Tasks :
          /\ WF_vars(StepLookup(i))
          /\ WF_vars(StepErase(i))
          /\ WF_vars(StepEnter(i))
          /\ WF_vars(StepRecover(i))

\* C24: dispatch adds no waiting of its own. For a registered type, a poll
\* of the dispatch leads into the handler's body, and once the body has
\* returned the dispatch returns to its caller, whatever the other
\* dispatches on the bus are doing.
C24_ReturnsWhenHandlerReturns ==
    \A i \in Tasks :
        /\ (cpu = i /\ pc[i] = "created" /\ HasEntry(call[i].op.type))
               ~> (pc[i] = "handling")
        /\ (pc[i] = "finished") ~> (pc[i] = "returned")

\* Dispatch i entered the handler while dispatch j was suspended inside it,
\* and has returned; j is still in flight.
C24_Witness ==
    \E i, j \in Tasks :
        /\ i # j
        /\ pc[j] = "handling" /\ cpu # j
        /\ frame[i].overlapped /\ frame[i].entry = frame[j].entry
        /\ pc[i] = "returned" /\ ret[i] = out[i] /\ ret[i].from = i

=============================================================================
